---- MODULE Spec2Model ----
(***************************************************************************)
(* Attendance workflow of the church management backend.                   *)
(*                                                                         *)
(* The three tables (members, users, attendance) are the committed state   *)
(* of the record store.  Every HTTP request runs in its own SQLAlchemy     *)
(* session; a request that issues several statements is modelled as a     *)
(* process whose steps are the statements, so that other requests can      *)
(* commit between a pre-check and the commit that follows it.              *)
(***************************************************************************)
EXTENDS Integers, Sequences, FiniteSets, TLC

\* ---------------------------------------------------------------- bounds
MaxMembers == 2        \* rows the members table may grow to
MaxDate    == 2        \* calendar days 1..MaxDate
MaxRows    == 2        \* rows the attendance table may grow to
MaxIds     == 2        \* length of a bulk request's member_ids list
MaxUsers   == 2        \* rows the users table may grow to
MaxListed  == 45       \* rows of a table that is listed page by page
MaxHidden  == 2        \* rows among the first of a listed table that may be soft-deleted
MaxPage    == 4        \* page numbers 0..MaxPage of a list request
MaxPageSize == 3       \* small page sizes 0..MaxPageSize of a list request

\* ------------------------------------------------------------ value sets
Procs  == {"r1", "r2"}                 \* concurrently served requests
Phones == {"+1555"}                    \* phone numbers that occur
None   == "None"                       \* Python None / SQL NULL
Dates  == 1..MaxDate
NoDate == 0                            \* attendance_date omitted (None)
DateInputs == 0..MaxDate               \* Dates and NoDate
MemberIds == 1..MaxMembers             \* ids a request may carry
Emails == {"admin@cms.com", "a@cms.com"}   \* email addresses that occur

\* AttendanceStatusEnum
PRESENT == "present"
ABSENT  == "absent"
LATE    == "late"
EXCUSED == "excused"
AttendanceStatusEnum == {PRESENT, ABSENT, LATE, EXCUSED}

\* statuses and notes the modelled requests carry
StatusInputs == {PRESENT, ABSENT}
NotesInputs  == {None}

QRNotes == "Self-checked via QR code"

\* UserRole
SUPER_ADMIN  == "super_admin"
CALLING_TEAM == "calling_team"
TEXTING_TEAM == "texting_team"
UserRole == {SUPER_ADMIN, CALLING_TEAM, TEXTING_TEAM}

\* schemas.user.UserRole: the roles a request body can carry
ADMIN == "admin"
USER  == "user"
SchemaUserRole == {ADMIN, USER}

VARIABLES
    members,      \* members table: sequence of rows, id = position
    users,        \* users table: sequence of rows, id = position
    attendance,   \* attendance table: sequence of rows, id = position
    today,        \* date.today()
    sess,         \* per request: operation, position, local data, response
    marked        \* history: (member, date) pairs for which mark returned 201

vars == <<members, users, attendance, today, sess, marked>>

\* ------------------------------------------------------------- helpers
Range(f) == {f[i] : i \in DOMAIN f}

SeqsUpTo(S, n) == UNION {[1..k -> S] : k \in 1..n}

\* Member(...) row; the columns the services read or compare
Member(phone, email) ==
    [phone_number |-> phone, email |-> email, is_deleted |-> FALSE]

\* Attendance(...) row as constructed by the services; check_in_time is
\* datetime.utcnow() at construction, to the day
Attendance(member_id, attendance_date, status, notes) ==
    [member_id |-> member_id, attendance_date |-> attendance_date,
     status |-> status, notes |-> notes, check_in_time |-> today,
     is_deleted |-> FALSE]

\* get_password_hash / verify_password (app/core/security.py)
get_password_hash(password) == <<"hash", password>>
verify_password(password, hashed_password) ==
    hashed_password = get_password_hash(password)

\* User(...) row as constructed by create_user and create_default_admin
User(email, username, full_name, role, password) ==
    [email |-> email, username |-> username, full_name |-> full_name,
     role |-> role, hashed_password |-> get_password_hash(password),
     must_change_password |-> TRUE, is_active |-> TRUE, is_deleted |-> FALSE]

\* the user inserted by create_default_admin at boot
DefaultAdmin ==
    User("admin@cms.com", "admin", "System Administrator", SUPER_ADMIN,
         "Admin@123")

\* db.query(Member).filter(Member.id == member_id, Member.is_deleted == False).first()
LiveMember(member_id) ==
    member_id \in DOMAIN members /\ ~members[member_id].is_deleted

\* the lookup without the is_deleted filter
get_member_unfiltered(member_id) == member_id \in DOMAIN members
\* AttendanceService._get_member_or_404: TRUE when the member is returned,
\* FALSE when HTTP 404 is raised
get_member_or_404(member_id) == LiveMember(member_id)

\* db.query(Attendance).filter(member_id ==, attendance_date ==, is_deleted == False)
ExistingIds(table, member_id, target_date) ==
    {i \in DOMAIN table : /\ table[i].member_id = member_id
                          /\ table[i].attendance_date = target_date
                          /\ table[i].is_deleted = FALSE}

\* every row of the pair, soft-deleted ones included
PairIds(table, member_id, target_date) ==
    {i \in DOMAIN table : /\ table[i].member_id = member_id
                          /\ table[i].attendance_date = target_date}

\* UniqueConstraint("member_id", "attendance_date"): may rec be inserted in table
uq_none(table, rec) == TRUE
uq_member_attendance_date(table, rec) ==
    PairIds(table, rec.member_id, rec.attendance_date) = {}

\* data.attendance_date or date.today()
TargetDate(attendance_date) ==
    IF attendance_date = NoDate THEN today ELSE attendance_date

\* ------------------------------------------------------------ requests
\* A request that is not being served.
Idle ==
    [op |-> "none", pc |-> "idle", member_id |-> 0, target_date |-> 0,
     status |-> None, notes |-> None, member_ids |-> <<>>, i |-> 0,
     pending |-> <<>>, skipped |-> <<>>, created |-> {}, inserted |-> {},
     result |-> "none", already_marked_today |-> FALSE,
     after |-> FALSE, id |-> 0, caller |-> 0, items |-> {},
     update_data |-> <<>>,
     page |-> 0, page_size |-> 0, total |-> 0, total_pages |-> 0,
     body |-> <<>>]

\* responses
OK             == "200 OK"
Created        == "201 Created"
BadRequest     == "400 Bad Request"
Unauthorized   == "401 Unauthorized"
Forbidden      == "403 Forbidden"
NotFound       == "404 Not Found"
Conflict       == "409 Conflict"
IntegrityError == "500 IntegrityError"
Unprocessable  == "422 Unprocessable Entity"

\* SessionLocal (app/database.py): whether a query flushes the session's
\* pending rows.  The inserts of one call are attempted together at its
\* commit, so a query does not flush.
autoflush == FALSE

\* the response is ready; the request's local data is dropped
Done(s, result) ==
    [sess[s] EXCEPT !.pc = "done", !.result = result, !.status = None,
                    !.notes = None, !.pending = <<>>, !.i = 0]

\* the dependencies of the endpoint of `op` have passed; its handler runs
Handler(s, op) == sess[s].pc = "handler" /\ sess[s].op = op

TypeOK ==
    /\ today \in Dates
    /\ Len(members) <= MaxMembers
    /\ Len(attendance) <= MaxRows
    /\ \A i \in DOMAIN attendance :
          /\ attendance[i].status \in AttendanceStatusEnum
          /\ attendance[i].is_deleted \in BOOLEAN
    /\ \A s \in Procs : sess[s].pc \in
          {"idle", "handler", "precheck", "commit", "reread", "loop", "requery",
           "done"}

Init ==
    /\ members = <<>>
    /\ users = <<DefaultAdmin>>
    /\ attendance = <<>>
    /\ today = 1
    /\ sess = [s \in Procs |-> Idle]
    /\ marked = {}

\* the calendar day changes
NextDay ==
    /\ today < MaxDate
    /\ today' = today + 1
    /\ UNCHANGED <<members, users, attendance, sess, marked>>

\* ------------------------------------------------------ member directory
\* MemberService.create_member (phone number only; no email in the request)
create_member(phone) ==
    /\ Len(members) < MaxMembers
    /\ members' = Append(members, Member(phone, None))
    /\ UNCHANGED <<users, attendance, today, sess, marked>>

\* MemberService.delete_member: get_member (404 unless live), then soft delete
delete_member(member_id) ==
    /\ LiveMember(member_id)
    /\ members' = [members EXCEPT ![member_id].is_deleted = TRUE]
    /\ UNCHANGED <<users, attendance, today, sess, marked>>

\* the fields of update_data = data.model_dump(exclude_unset=True) whose
\* value differs from the loaded row: the columns the UPDATE will set
Changes(row, update_data) ==
    [f \in {g \in DOMAIN update_data : update_data[g] # row[g]} |-> update_data[f]]

\* the row after `for field, value in update_data.items(): setattr(...)`
SetAttrsAll(row, update_data) ==
    [f \in DOMAIN row |->
        IF f \in DOMAIN update_data THEN update_data[f]
        ELSE IF f = "is_deleted" THEN row[f] ELSE None]
SetAttrs(row, update_data) ==
    [f \in DOMAIN row |-> IF f \in DOMAIN update_data THEN update_data[f] ELSE row[f]]

\* Member.email: unique=True, nullable=True; may `email` be stored in row
\* `id` (0 for a new row): NULLs never collide, deleted rows do
uq_members_email_none(table, id, email) == TRUE
uq_members_email(table, id, email) ==
    \/ email = None
    \/ \A i \in DOMAIN table : i # id => table[i].email # email

\* MemberService.create_member, lines 16-29: the email pre-check, db.add
create_member_begin(s, member_data) ==
    /\ Handler(s, "create_member")
    /\ LET r == [sess[s] EXCEPT !.body = member_data]
           taken == /\ member_data.email # None
                    /\ \E i \in DOMAIN members :
                          /\ members[i].email = member_data.email
                          /\ members[i].is_deleted = FALSE
       IN sess' = [sess EXCEPT ![s] =
             IF taken
             THEN [r EXCEPT !.pc = "done", !.result = BadRequest]
             ELSE [r EXCEPT !.pc = "commit",
                            !.pending = <<Member(member_data.phone_number,
                                                 member_data.email)>>]]
    /\ UNCHANGED <<members, users, attendance, today, marked>>

\* lines 30-32: db.commit() outside any try block, db.refresh
create_member_commit(s) ==
    /\ sess[s].pc = "commit"
    /\ sess[s].op = "create_member"
    /\ LET row == sess[s].pending[1]
           ok  == uq_members_email(members, 0, row.email)
       IN /\ ok => Len(members) < MaxMembers
          /\ members' = IF ok THEN Append(members, row) ELSE members
          /\ sess' = [sess EXCEPT ![s] =
                IF ok THEN [Done(s, Created) EXCEPT !.id = Len(members) + 1]
                ELSE Done(s, IntegrityError)]
    /\ UNCHANGED <<users, attendance, today, marked>>

\* MemberService.get_member: TRUE when the member is returned, FALSE when
\* HTTP 404 is raised
get_member(member_id) ==
    member_id \in DOMAIN members /\ members[member_id].is_deleted = FALSE

\* MemberService.update_member, lines 85-103: get_member, the email
\* pre-check, setattr of the fields that are set
update_member_begin(s, member_id, member_data) ==
    /\ Handler(s, "update_member")
    /\ LET r == [sess[s] EXCEPT !.id = member_id, !.update_data = member_data]
       IN sess' = [sess EXCEPT ![s] =
             IF ~get_member(member_id)
             THEN [r EXCEPT !.pc = "done", !.result = NotFound]
             ELSE IF /\ "email" \in DOMAIN member_data
                     /\ member_data["email"] # None
                     /\ member_data["email"] # members[member_id].email
                     /\ \E i \in DOMAIN members :
                           /\ members[i].email = member_data["email"]
                           /\ members[i].is_deleted = FALSE
                           /\ i # member_id
             THEN [r EXCEPT !.pc = "done", !.result = BadRequest]
             ELSE [r EXCEPT !.pc = "commit",
                            !.pending = <<Changes(members[member_id], member_data)>>]]
    /\ UNCHANGED <<members, users, attendance, today, marked>>

\* lines 105-107: db.commit() outside any try block, db.refresh
update_member_commit(s) ==
    /\ sess[s].pc = "commit"
    /\ sess[s].op = "update_member"
    /\ LET id  == sess[s].id
           chg == sess[s].pending[1]
           ok  == "email" \in DOMAIN chg => uq_members_email(members, id, chg["email"])
       IN /\ members' = IF ok THEN [members EXCEPT ![id] = SetAttrs(@, chg)]
                        ELSE members
          /\ sess' = [sess EXCEPT ![s] =
                IF ok THEN [Done(s, OK) EXCEPT !.id = id]
                ELSE [Done(s, IntegrityError) EXCEPT !.id = id]]
    /\ UNCHANGED <<users, attendance, today, marked>>

\* ------------------------------------------------------------- commit
\* db.commit() of a session whose pending inserts are `pending`: the rows
\* are inserted one after the other; TRUE when none violates the constraint
CommitOK(table, pending) ==
    \A k \in DOMAIN pending :
        uq_member_attendance_date(table \o SubSeq(pending, 1, k - 1), pending[k])

\* the table after `try: db.commit() except IntegrityError: db.rollback()`
CommitPartial(table, pending) ==
    IF pending # <<>> /\ uq_member_attendance_date(table, pending[1])
    THEN Append(table, pending[1]) ELSE table
Commit(table, pending) ==
    IF CommitOK(table, pending) THEN table \o pending ELSE table

\* the response after `try: db.commit() except IntegrityError: ... raise 409`
CommitRaises(ok, success) == IF ok THEN success ELSE IntegrityError
CommitResponse(ok, success) == IF ok THEN success ELSE Conflict

\* ------------------------------------------------ mark_attendance (POST /)
\* lines 105-107: member lookup, target date
mark_attendance_begin(s, member_id, attendance_date, status, notes) ==
    /\ sess[s].pc = "idle"
    /\ LET d == TargetDate(attendance_date)
           r == [Idle EXCEPT !.op = "mark", !.member_id = member_id,
                             !.target_date = d, !.status = status,
                             !.notes = notes, !.after = (<<member_id, d>> \in marked)]
       IN sess' = [sess EXCEPT ![s] =
                     IF get_member_or_404(member_id)
                     THEN [r EXCEPT !.pc = "precheck"]
                     ELSE [r EXCEPT !.pc = "done", !.result = NotFound,
                                    !.status = None, !.notes = None]]
    /\ UNCHANGED <<members, users, attendance, today, marked>>

\* the record mark_attendance builds (lines 124-130)
MarkRecord(data) ==
    Attendance(data.member_id, data.target_date, data.status, data.notes)

\* the record confirm_and_mark builds (lines 203-209); data.status is the
\* status hint of the request body, which QRConfirmRequest does not keep
ConfirmRecordHint(data) ==
    Attendance(data.member_id, data.target_date, data.status, QRNotes)
ConfirmRecord(data) ==
    Attendance(data.member_id, data.target_date, PRESENT, QRNotes)

\* the duplicate guard of mark_attendance (109-122) and confirm_and_mark (192-201)
DuplicateGuard(table, member_id, target_date) ==
    ExistingIds(table, member_id, target_date) # {}

\* lines 109-131 / 192-210: duplicate guard, then db.add(record)
Precheck(s, op, record) ==
    /\ sess[s].pc = "precheck"
    /\ sess[s].op = op
    /\ LET m == sess[s].member_id
           d == sess[s].target_date
       IN IF DuplicateGuard(attendance, m, d)
          THEN sess' = [sess EXCEPT ![s] = Done(s, Conflict)]
          ELSE sess' = [sess EXCEPT ![s] =
                  [sess[s] EXCEPT !.pc = "commit", !.pending = <<record>>]]
    /\ UNCHANGED <<members, users, attendance, today, marked>>

mark_attendance_precheck(s) == Precheck(s, "mark", MarkRecord(sess[s]))

\* lines 132-139 / 211-218: commit, IntegrityError -> rollback and 409
CommitOne(s, op) ==
    /\ sess[s].pc = "commit"
    /\ sess[s].op = op
    /\ Len(Commit(attendance, sess[s].pending)) <= MaxRows
    /\ attendance' = Commit(attendance, sess[s].pending)
    /\ sess' = [sess EXCEPT ![s] =
          IF CommitOK(attendance, sess[s].pending)
          THEN [sess[s] EXCEPT !.pc = "reread", !.pending = <<>>,
                               !.inserted = {Len(attendance) + 1}]
          ELSE Done(s, CommitResponse(FALSE, Created))]
    /\ UNCHANGED <<members, users, today, marked>>

mark_attendance_commit(s) == CommitOne(s, "mark")

\* a lookup by id that does not filter on is_deleted
get_record_unfiltered(attendance_id) ==
    attendance_id \in DOMAIN attendance

\* AttendanceService._get_record_or_404
get_record_or_404(attendance_id) ==
    attendance_id \in DOMAIN attendance /\ ~attendance[attendance_id].is_deleted

\* lines 141-144 / 220-222: the committed record is read again for the response
Reread(s, op) ==
    /\ sess[s].pc = "reread"
    /\ sess[s].op = op
    /\ LET id == CHOOSE i \in sess[s].inserted : TRUE
           ok == get_record_or_404(id)
       IN /\ sess' = [sess EXCEPT ![s] = Done(s, IF ok THEN Created ELSE NotFound)]
          /\ marked' = IF ok /\ op = "mark"
                       THEN marked \cup {<<sess[s].member_id, sess[s].target_date>>}
                       ELSE marked
    /\ UNCHANGED <<members, users, attendance, today>>

mark_attendance_reread(s) == Reread(s, "mark")

\* --------------------------------------- confirm_and_mark (POST /qr/confirm)
\* lines 187-190: target date, member lookup; hint is a status the body may carry
confirm_and_mark_begin(s, member_id, attendance_date, hint) ==
    /\ sess[s].pc = "idle"
    /\ LET d == TargetDate(attendance_date)
           r == [Idle EXCEPT !.op = "confirm", !.member_id = member_id,
                             !.target_date = d, !.status = hint,
                             !.after = (<<member_id, d>> \in marked)]
       IN sess' = [sess EXCEPT ![s] =
                     IF get_member_or_404(member_id)
                     THEN [r EXCEPT !.pc = "precheck"]
                     ELSE [r EXCEPT !.pc = "done", !.result = NotFound,
                                    !.status = None, !.notes = None]]
    /\ UNCHANGED <<members, users, attendance, today, marked>>

confirm_and_mark_precheck(s) == Precheck(s, "confirm", ConfirmRecord(sess[s]))
confirm_and_mark_commit(s) == CommitOne(s, "confirm")
confirm_and_mark_reread(s) == Reread(s, "confirm")

\* the response has been sent; the worker serves the next request
Return(s) ==
    /\ sess[s].pc = "done"
    /\ sess' = [sess EXCEPT ![s] = Idle]
    /\ UNCHANGED <<members, users, attendance, today, marked>>

\* ------------------------------------- bulk_mark_attendance (POST /bulk)
\* line 231-233: target date, empty result lists
bulk_mark_attendance_begin(s, member_ids, attendance_date, status, notes) ==
    /\ sess[s].pc = "idle"
    /\ sess' = [sess EXCEPT ![s] =
          [Idle EXCEPT !.op = "bulk", !.pc = "loop", !.member_ids = member_ids,
                       !.i = 1, !.target_date = TargetDate(attendance_date),
                       !.status = status, !.notes = notes]]
    /\ UNCHANGED <<members, users, attendance, today, marked>>

\* the rows a query of the session sees: the committed table, and with
\* autoflush the session's own pending rows, flushed by the query
Visible(s) == IF autoflush THEN attendance \o sess[s].pending ELSE attendance

\* one iteration of the loop (lines 235-261) for member_ids[i]
bulk_mark_attendance_loop(s) ==
    /\ sess[s].pc = "loop"
    /\ sess[s].op = "bulk"
    /\ LET r    == sess[s]
           id   == r.member_ids[r.i]
           last == r.i = Len(r.member_ids)
           nxt  == [r EXCEPT !.i = r.i + 1,
                             !.pc = IF last THEN "commit" ELSE "loop"]
       IN sess' = [sess EXCEPT ![s] =
            IF autoflush /\ ~CommitOK(attendance, r.pending)
            THEN \* the flush raises outside the try block
                 Done(s, IntegrityError)
            ELSE IF ~LiveMember(id)
            THEN [nxt EXCEPT !.skipped = Append(r.skipped, id)]
            ELSE IF ExistingIds(Visible(s), id, r.target_date) # {}
            THEN [nxt EXCEPT !.skipped = Append(r.skipped, id)]
            ELSE [nxt EXCEPT !.pending =
                     Append(r.pending,
                            Attendance(id, r.target_date, r.status, r.notes))]]
    /\ UNCHANGED <<members, users, attendance, today, marked>>

\* lines 263-270: one commit for the batch, IntegrityError -> rollback and 409
bulk_mark_attendance_commit(s) ==
    /\ sess[s].pc = "commit"
    /\ sess[s].op = "bulk"
    /\ Len(Commit(attendance, sess[s].pending)) <= MaxRows
    /\ attendance' = Commit(attendance, sess[s].pending)
    /\ sess' = [sess EXCEPT ![s] =
          IF CommitOK(attendance, sess[s].pending)
          THEN [sess[s] EXCEPT !.pc = "requery", !.pending = <<>>,
                   !.inserted = (Len(attendance) + 1)..
                                (Len(attendance) + Len(sess[s].pending))]
          ELSE Done(s, CommitResponse(FALSE, Created))]
    /\ UNCHANGED <<members, users, today, marked>>

\* the re-query of lines 273-282
CreatedRecords(table, member_ids, target_date) ==
    {i \in DOMAIN table : /\ table[i].member_id \in Range(member_ids)
                          /\ table[i].attendance_date = target_date
                          /\ table[i].is_deleted = FALSE}

\* lines 272-291: build the response from the re-query
bulk_mark_attendance_requery(s) ==
    /\ sess[s].pc = "requery"
    /\ sess[s].op = "bulk"
    /\ sess' = [sess EXCEPT ![s] =
          [Done(s, Created) EXCEPT
              !.created = CreatedRecords(attendance, sess[s].member_ids,
                                         sess[s].target_date)]]
    /\ UNCHANGED <<members, users, attendance, today, marked>>

\* "total_created": len(created_list), "total_skipped": len(skipped_ids)
total_created(r) == Cardinality(r.created)
total_skipped(r) == Len(r.skipped)

\* ------------------------------------------- update / delete (PUT, DELETE)
Unset == "unset"      \* a field the request body does not set

\* an update that stamps the row again, as an onupdate column would
update_attendance_restamped(attendance_id, status, notes) ==
    /\ get_record_or_404(attendance_id)
    /\ attendance' = [attendance EXCEPT ![attendance_id] =
          [@ EXCEPT !.status = IF status = Unset THEN @ ELSE status,
                    !.notes  = IF notes = Unset THEN @ ELSE notes,
                    !.check_in_time = today]]
    /\ UNCHANGED <<members, users, today, sess, marked>>

\* AttendanceService.update_attendance: only the fields that are set change
update_attendance(attendance_id, status, notes) ==
    /\ get_record_or_404(attendance_id)
    /\ attendance' = [attendance EXCEPT ![attendance_id] =
          [@ EXCEPT !.status = IF status = Unset THEN @ ELSE status,
                    !.notes  = IF notes = Unset THEN @ ELSE notes]]
    /\ UNCHANGED <<members, users, today, sess, marked>>

\* AttendanceService.delete_attendance: soft delete
delete_attendance(attendance_id) ==
    /\ get_record_or_404(attendance_id)
    /\ attendance' = [attendance EXCEPT ![attendance_id].is_deleted = TRUE]
    /\ UNCHANGED <<members, users, today, sess, marked>>

\* ------------------------------------------ lookup_by_phone (POST /qr/lookup)
\* the members _get_member_by_phone may return (.first() of the matches)
MembersByPhone(phone_number) ==
    {m \in DOMAIN members : /\ members[m].phone_number = phone_number
                            /\ members[m].is_deleted = FALSE}

\* lines 167-171
AlreadyMarkedAnyDay(member_id) ==
    \E i \in DOMAIN attendance : /\ attendance[i].member_id = member_id
                                 /\ attendance[i].is_deleted = FALSE
AlreadyMarked(member_id) == ExistingIds(attendance, member_id, today) # {}

\* a lookup that also checks the member in
lookup_and_mark(s, phone_number) ==
    /\ sess[s].pc = "idle"
    /\ \E m \in MembersByPhone(phone_number) :
         /\ sess' = [sess EXCEPT ![s] =
               [Idle EXCEPT !.op = "lookup", !.pc = "done", !.result = OK,
                            !.member_id = m, !.target_date = today,
                            !.already_marked_today = AlreadyMarked(m)]]
         /\ attendance' =
               IF PairIds(attendance, m, today) = {} /\ Len(attendance) < MaxRows
               THEN Append(attendance, Attendance(m, today, PRESENT, QRNotes))
               ELSE attendance
    /\ UNCHANGED <<members, users, today, marked>>

\* lines 157-178: both queries and the response; nothing is written
lookup_by_phone(s, phone_number) ==
    /\ sess[s].pc = "idle"
    /\ IF MembersByPhone(phone_number) = {}
       THEN sess' = [sess EXCEPT ![s] =
                  [Idle EXCEPT !.op = "lookup", !.pc = "done", !.result = NotFound]]
       ELSE \E m \in MembersByPhone(phone_number) :
            sess' = [sess EXCEPT ![s] =
                  [Idle EXCEPT !.op = "lookup", !.pc = "done", !.result = OK,
                               !.member_id = m, !.target_date = today,
                               !.already_marked_today = AlreadyMarked(m)]]
    /\ UNCHANGED <<members, users, attendance, today, marked>>

\* ------------------------------------------------------------ access policy
LookupError == "500 LookupError"
DataError   == "500 DataError"
Pass        == "pass"

\* decode_access_token (app/core/security.py): the subject of a token, 0
\* for a token that does not decode
Tokens == 0..MaxUsers
decode_access_token(token) == token

\* the Enum column type turns a stored role into a UserRole member, or
\* raises LookupError
Loads(row) == row.role \in UserRole

\* deps.get_current_user: Pass when the user is returned
get_current_user(token) ==
    LET user_id == decode_access_token(token)
    IN IF user_id = 0 THEN Unauthorized
       ELSE IF user_id \notin DOMAIN users \/ users[user_id].is_deleted
       THEN Unauthorized
       ELSE IF ~Loads(users[user_id]) THEN LookupError
       ELSE IF ~users[user_id].is_active THEN Forbidden
       ELSE Pass

\* deps.get_current_active_user
get_current_active_user(token) == get_current_user(token)

\* deps.require_admin
require_any_role(token) == get_current_active_user(token)
require_admin(token) ==
    IF get_current_active_user(token) # Pass
    THEN get_current_active_user(token)
    ELSE IF users[decode_access_token(token)].role # SUPER_ADMIN THEN Forbidden
    ELSE Pass

\* deps.require_member_access
require_member_access(token) == get_current_active_user(token)

\* deps.require_attendance_access
require_attendance_access(token) ==
    IF get_current_active_user(token) # Pass
    THEN get_current_active_user(token)
    ELSE IF users[decode_access_token(token)].role = TEXTING_TEAM THEN Forbidden
    ELSE Pass

\* the endpoints of each router
UserOps   == {"create_user", "get_users", "get_user", "update_user",
              "reset_password", "delete_user"}
MemberOps == {"create_member", "get_members", "get_member", "update_member",
              "delete_member"}
AuthOps   == {"me", "change_password"}
AttendanceOps == {"mark_attendance", "bulk_mark_attendance", "list_attendance",
                  "get_attendance", "update_attendance", "delete_attendance"}

\* the dependencies of an endpoint are resolved before its handler runs:
\* the handler is entered when `verdict` is Pass, else the request ends
Depends(s, token, op, verdict) ==
    /\ sess[s].pc = "idle"
    /\ sess' = [sess EXCEPT ![s] =
          IF verdict = Pass
          THEN [Idle EXCEPT !.op = op, !.pc = "handler", !.caller = token]
          ELSE [Idle EXCEPT !.op = op, !.pc = "done", !.caller = token,
                            !.result = verdict]]
    /\ UNCHANGED <<members, users, attendance, today, marked>>

\* endpoints/users.py: every endpoint depends on require_admin
users_router(s, token, op) ==
    op \in UserOps /\ Depends(s, token, op, require_admin(token))

\* endpoints/members.py: every endpoint depends on require_member_access
members_router(s, token, op) ==
    op \in MemberOps /\ Depends(s, token, op, require_member_access(token))

\* api/v1/router.py: the routers api_router includes
IncludedRouters == {"auth", "users", "members"}

\* endpoints/attendance.py: no included router serves its paths, so a
\* request for one of them is answered 404 before any dependency is
\* resolved (the dependency the endpoints name, require_user_or_admin, is
\* not defined by deps.py)
attendance_router(s, token, op) ==
    /\ op \in AttendanceOps
    /\ "attendance" \notin IncludedRouters
    /\ Depends(s, token, op, NotFound)

\* endpoints/auth.py: /me and /change-password depend on
\* get_current_active_user
auth_router(s, token, op) ==
    op \in AuthOps /\ Depends(s, token, op, get_current_active_user(token))

\* --------------------------------------------- member directory, reads
\* MemberService.get_member behind GET /members/{member_id}
get_member_call(s, member_id) ==
    /\ Handler(s, "get_member")
    /\ sess' = [sess EXCEPT ![s] =
          IF get_member(member_id)
          THEN [sess[s] EXCEPT !.id = member_id, !.pc = "done", !.result = OK,
                               !.items = {member_id}]
          ELSE [sess[s] EXCEPT !.id = member_id, !.pc = "done",
                               !.result = NotFound]]
    /\ UNCHANGED <<members, users, attendance, today, marked>>

\* MemberService.get_members without filters: the non-deleted members
get_members(s) ==
    /\ Handler(s, "get_members")
    /\ sess' = [sess EXCEPT ![s] =
          [sess[s] EXCEPT !.pc = "done", !.result = OK,
              !.items = {i \in DOMAIN members : members[i].is_deleted = FALSE}]]
    /\ UNCHANGED <<members, users, attendance, today, marked>>

\* MemberService.delete_member behind DELETE /members/{member_id}
delete_member_call(s, member_id) ==
    /\ Handler(s, "delete_member")
    /\ IF get_member(member_id)
       THEN /\ members' = [members EXCEPT ![member_id].is_deleted = TRUE]
            /\ sess' = [sess EXCEPT ![s] =
                  [sess[s] EXCEPT !.id = member_id, !.pc = "done", !.result = OK]]
       ELSE /\ members' = members
            /\ sess' = [sess EXCEPT ![s] =
                  [sess[s] EXCEPT !.id = member_id, !.pc = "done",
                                  !.result = NotFound]]
    /\ UNCHANGED <<users, attendance, today, marked>>

\* ----------------------------------------------------------- user directory
\* str.lower() on the usernames that occur
Lower(username) == IF username = "Admin" THEN "admin" ELSE username

\* db.query(User).filter(<column> == value, User.is_deleted == False)
UsersWith(column, value) ==
    {i \in DOMAIN users : users[i][column] = value /\ users[i].is_deleted = FALSE}

\* User.email and User.username: unique=True, over every row of the table;
\* may row `id` (0 for a new row) hold `value` in `column`
uq_users_none(column, id, value) == TRUE
uq_users(column, id, value) ==
    \A i \in DOMAIN users : i # id => users[i][column] # value

\* the text columns of User that are nullable=False
NotNullText == {"email", "username", "full_name", "role"}

\* UserService.get_user: Pass when the user is returned
get_user_unfiltered(user_id) ==
    IF user_id \notin DOMAIN users THEN NotFound
    ELSE IF ~Loads(users[user_id]) THEN LookupError
    ELSE Pass
get_user(user_id) ==
    IF user_id \notin DOMAIN users \/ users[user_id].is_deleted THEN NotFound
    ELSE IF ~Loads(users[user_id]) THEN LookupError
    ELSE Pass

\* UserService.create_user, lines 17-50: the two pre-checks, db.add
create_user_begin(s, user_data) ==
    /\ Handler(s, "create_user")
    /\ LET by_email    == UsersWith("email", user_data.email)
           by_username == UsersWith("username", Lower(user_data.username))
           first == IF by_email # {} THEN by_email ELSE by_username
       IN sess' = [sess EXCEPT ![s] =
             IF first # {}
             THEN IF \E i \in first : ~Loads(users[i])
                  THEN Done(s, LookupError)
                  ELSE Done(s, BadRequest)
             ELSE [sess[s] EXCEPT !.pc = "commit",
                      !.pending = <<User(user_data.email,
                                         Lower(user_data.username),
                                         user_data.full_name, user_data.role,
                                         user_data.password)>>]]
    /\ UNCHANGED <<members, users, attendance, today, marked>>

\* the response of a commit that raises nothing, followed by db.refresh
Refreshed(row, success) == IF Loads(row) THEN success ELSE LookupError

\* lines 51-53: db.commit() outside any try block, db.refresh.  A role that
\* is no value of the column's enum is refused by a native enum type and
\* stored by a VARCHAR column (native_enum: which of the two the store has)
create_user_commit(s, native_enum) ==
    /\ sess[s].pc = "commit"
    /\ sess[s].op = "create_user"
    /\ LET row == sess[s].pending[1]
           result == IF native_enum /\ row.role \notin UserRole THEN DataError
                     ELSE IF ~(/\ uq_users("email", 0, row.email)
                               /\ uq_users("username", 0, row.username))
                     THEN IntegrityError
                     ELSE Refreshed(row, Created)
           stored == result \in {Created, LookupError}
       IN /\ stored => Len(users) < MaxUsers
          /\ users' = IF stored THEN Append(users, row) ELSE users
          /\ sess' = [sess EXCEPT ![s] =
                [Done(s, result) EXCEPT
                    !.id = IF stored THEN Len(users) + 1 ELSE 0]]
    /\ UNCHANGED <<members, attendance, today, marked>>

\* UserService.update_user, lines 127-145: get_user, the email pre-check,
\* setattr of the fields that are set
update_user_begin(s, user_id, user_data) ==
    /\ Handler(s, "update_user")
    /\ LET r == [sess[s] EXCEPT !.id = user_id, !.update_data = user_data]
           others == IF "email" \in DOMAIN user_data
                     THEN UsersWith("email", user_data["email"]) \ {user_id}
                     ELSE {}
       IN sess' = [sess EXCEPT ![s] =
             IF get_user(user_id) # Pass
             THEN [r EXCEPT !.pc = "done", !.result = get_user(user_id)]
             ELSE IF /\ "email" \in DOMAIN user_data
                     /\ user_data["email"] # None
                     /\ user_data["email"] # users[user_id].email
                     /\ others # {}
             THEN [r EXCEPT !.pc = "done",
                            !.result = IF \E i \in others : ~Loads(users[i])
                                       THEN LookupError ELSE BadRequest]
             ELSE [r EXCEPT !.pc = "commit",
                            !.pending = <<Changes(users[user_id], user_data)>>]]
    /\ UNCHANGED <<members, users, attendance, today, marked>>

\* lines 147-149: db.commit() outside any try block, db.refresh
update_user_commit(s, native_enum) ==
    /\ sess[s].pc = "commit"
    /\ sess[s].op = "update_user"
    /\ LET id  == sess[s].id
           chg == sess[s].pending[1]
           row == SetAttrs(users[id], chg)
           result == IF /\ native_enum /\ "role" \in DOMAIN chg
                        /\ chg["role"] \notin UserRole
                     THEN DataError
                     ELSE IF \/ /\ "email" \in DOMAIN chg
                                /\ ~uq_users("email", id, chg["email"])
                             \/ \E f \in DOMAIN chg \cap NotNullText : chg[f] = None
                     THEN IntegrityError
                     ELSE Refreshed(row, OK)
       IN /\ users' = IF result \in {OK, LookupError}
                      THEN [users EXCEPT ![id] = row] ELSE users
          /\ sess' = [sess EXCEPT ![s] = Done(s, result)]
    /\ UNCHANGED <<members, attendance, today, marked>>

\* the non-deleted super admins counted by delete_user (lines 195-198)
admin_count == Cardinality(UsersWith("role", SUPER_ADMIN))

\* UserService.delete_user, lines 191-206: get_user, the last-admin guard,
\* the two flags are set
LastAdminUnguarded(user_id) == FALSE
LastAdmin(user_id) ==
    users[user_id].role = SUPER_ADMIN /\ admin_count <= 1

delete_user_begin(s, user_id) ==
    /\ Handler(s, "delete_user")
    /\ LET r == [sess[s] EXCEPT !.id = user_id]
       IN sess' = [sess EXCEPT ![s] =
             IF get_user(user_id) # Pass
             THEN [r EXCEPT !.pc = "done", !.result = get_user(user_id)]
             ELSE IF LastAdmin(user_id)
             THEN [r EXCEPT !.pc = "done", !.result = BadRequest]
             ELSE [r EXCEPT !.pc = "commit"]]
    /\ UNCHANGED <<members, users, attendance, today, marked>>

\* lines 207-209: db.commit(), db.refresh
delete_user_commit(s) ==
    /\ sess[s].pc = "commit"
    /\ sess[s].op = "delete_user"
    /\ users' = [users EXCEPT ![sess[s].id].is_deleted = TRUE,
                              ![sess[s].id].is_active = FALSE]
    /\ sess' = [sess EXCEPT ![s] = Done(s, OK)]
    /\ UNCHANGED <<members, attendance, today, marked>>

\* UserService.reset_password
reset_password(s, user_id, new_password) ==
    /\ Handler(s, "reset_password")
    /\ LET r == [sess[s] EXCEPT !.id = user_id]
       IN IF get_user(user_id) # Pass
          THEN /\ sess' = [sess EXCEPT ![s] =
                     [r EXCEPT !.pc = "done", !.result = get_user(user_id)]]
               /\ users' = users
          ELSE /\ sess' = [sess EXCEPT ![s] = [r EXCEPT !.pc = "done", !.result = OK]]
               /\ users' = [users EXCEPT
                     ![user_id].hashed_password = get_password_hash(new_password),
                     ![user_id].must_change_password = TRUE]
    /\ UNCHANGED <<members, attendance, today, marked>>

\* a change of password that does not ask for the current one
change_password_unverified(s, current_password, new_password) ==
    /\ Handler(s, "change_password")
    /\ LET user_id == sess[s].caller
           r == [sess[s] EXCEPT !.id = user_id, !.pc = "done", !.result = OK,
                    !.body = [current_password |-> current_password,
                              new_password |-> new_password]]
       IN /\ sess' = [sess EXCEPT ![s] = r]
          /\ users' = [users EXCEPT
                ![user_id].hashed_password = get_password_hash(new_password),
                ![user_id].must_change_password = FALSE]
    /\ UNCHANGED <<members, attendance, today, marked>>

\* UserService.change_password, for the user get_current_user returned
change_password(s, current_password, new_password) ==
    /\ Handler(s, "change_password")
    /\ LET user_id == sess[s].caller
           r == [sess[s] EXCEPT !.id = user_id,
                    !.body = [current_password |-> current_password,
                              new_password |-> new_password]]
       IN IF ~verify_password(current_password, users[user_id].hashed_password)
          THEN /\ sess' = [sess EXCEPT ![s] =
                     [r EXCEPT !.pc = "done", !.result = BadRequest]]
               /\ users' = users
          ELSE /\ sess' = [sess EXCEPT ![s] = [r EXCEPT !.pc = "done", !.result = OK]]
               /\ users' = [users EXCEPT
                     ![user_id].hashed_password = get_password_hash(new_password),
                     ![user_id].must_change_password = FALSE]
    /\ UNCHANGED <<members, attendance, today, marked>>

\* UserService.get_user behind GET /users/{user_id}
get_user_call(s, user_id) ==
    /\ Handler(s, "get_user")
    /\ sess' = [sess EXCEPT ![s] =
          IF get_user(user_id) # Pass
          THEN [sess[s] EXCEPT !.id = user_id, !.pc = "done",
                               !.result = get_user(user_id)]
          ELSE [sess[s] EXCEPT !.id = user_id, !.pc = "done", !.result = OK,
                               !.items = {user_id}]]
    /\ UNCHANGED <<members, users, attendance, today, marked>>

\* UserService.get_users without filters: the non-deleted users
get_users(s) ==
    /\ Handler(s, "get_users")
    /\ LET rows == {i \in DOMAIN users : users[i].is_deleted = FALSE}
       IN sess' = [sess EXCEPT ![s] =
             IF \E i \in rows : ~Loads(users[i])
             THEN [sess[s] EXCEPT !.pc = "done", !.result = LookupError]
             ELSE [sess[s] EXCEPT !.pc = "done", !.result = OK, !.items = rows]]
    /\ UNCHANGED <<members, users, attendance, today, marked>>

\* GET /auth/me
get_current_user_info(s) ==
    /\ Handler(s, "me")
    /\ sess' = [sess EXCEPT ![s] =
          [sess[s] EXCEPT !.pc = "done", !.result = OK, !.id = sess[s].caller,
                          !.items = {sess[s].caller}]]
    /\ UNCHANGED <<members, users, attendance, today, marked>>

\* ------------------------------------------------------------------ Next
\* the requests the workers in P serve step by step, carrying statuses of
\* St and attendance dates of Dt
Requests(P, St, Dt) ==
    \/ \E s \in P, m \in MemberIds, d \in Dt, st \in St, n \in NotesInputs :
          mark_attendance_begin(s, m, d, st, n)
    \/ \E s \in P : mark_attendance_precheck(s)
    \/ \E s \in P : mark_attendance_commit(s)
    \/ \E s \in P : mark_attendance_reread(s)
    \/ \E s \in P, m \in MemberIds, d \in Dt, hint \in St :
          confirm_and_mark_begin(s, m, d, hint)
    \/ \E s \in P : confirm_and_mark_precheck(s)
    \/ \E s \in P : confirm_and_mark_commit(s)
    \/ \E s \in P : confirm_and_mark_reread(s)
    \/ \E s \in P, ids \in SeqsUpTo(MemberIds, MaxIds), d \in Dt, st \in St,
          n \in NotesInputs :
          bulk_mark_attendance_begin(s, ids, d, st, n)
    \/ \E s \in P : bulk_mark_attendance_loop(s)
    \/ \E s \in P : bulk_mark_attendance_commit(s)
    \/ \E s \in P : bulk_mark_attendance_requery(s)
    \/ \E s \in P, p \in Phones : lookup_by_phone(s, p)
    \/ \E s \in P : Return(s)

\* the requests that read and commit in one step
Direct(St) ==
    \/ \E p \in Phones : create_member(p)
    \/ \E m \in MemberIds : delete_member(m)
    \/ \E id \in 1..MaxRows, st \in St \cup {Unset}, n \in NotesInputs \cup {Unset} :
          update_attendance(id, st, n)
    \/ \E id \in 1..MaxRows : delete_attendance(id)

\* no request is between two of its statements
Quiet == \A s \in Procs : sess[s].pc \in {"idle", "done"}

\* requests served one after the other, over all statuses and dates, as the
\* days pass
NextSeq ==
    \/ Requests({"r1"}, StatusInputs, DateInputs)
    \/ Quiet /\ Direct(StatusInputs)
    \/ Quiet /\ NextDay
SpecSeq == Init /\ [][NextSeq]_vars

\* requests served concurrently within one day
Next ==
    \/ Requests(Procs, {PRESENT}, {NoDate})
    \/ Direct({PRESENT})
Spec == Init /\ [][Next]_vars

\* ------------------------------------------------------ member directory
\* an update body that sets no field
NoFields == <<>>

\* bodies of create_member and update_member requests
MemberCreateInputs ==
    [phone_number : Phones, email : Emails \cup {None}]
MemberUpdateInputs ==
    {NoFields}
      \cup {[email |-> e] : e \in Emails \cup {None}}
      \cup {[phone_number |-> p] : p \in Phones \cup {None}}
      \cup {[email |-> e, phone_number |-> None] : e \in Emails}

\* member directory requests served concurrently
MemberRequests(P, Tk) ==
    \/ \E s \in P, token \in Tk, op \in {"create_member", "update_member"} :
          members_router(s, token, op)
    \/ \E s \in P, member_data \in MemberCreateInputs :
          create_member_begin(s, member_data)
    \/ \E s \in P : create_member_commit(s)
    \/ \E s \in P, m \in MemberIds, member_data \in MemberUpdateInputs :
          update_member_begin(s, m, member_data)
    \/ \E s \in P : update_member_commit(s)
    \/ \E m \in MemberIds : delete_member(m)
    \/ \E s \in P : Return(s)

NextMembers == MemberRequests(Procs, {1})
SpecMembers == Init /\ [][NextMembers]_vars

\* -------------------------------------------------------- user directory
Passwords == {"Admin@123", "New@1234"}

\* bodies of create_user and update_user requests
UserCreateInputs ==
    [email : Emails, username : {"a", "Admin"}, full_name : {"A"},
     role : SchemaUserRole, password : {"Admin@123"}]
UserUpdateInputs ==
    {NoFields}
      \cup {[email |-> e] : e \in Emails \cup {None}}
      \cup {[full_name |-> "B"]}
      \cup {[role |-> r] : r \in SchemaUserRole}
      \cup {[is_active |-> b] : b \in BOOLEAN}

\* an account next to the seeded one, holding a role of the role column
Account(role) == User("a@cms.com", "a", "A", role, "Admin@123")

\* the users table of a deployment: the seeded admin, alone or with one
\* more account
InitialUsers ==
    {<<DefaultAdmin>>} \cup {<<DefaultAdmin, Account(r)>> : r \in UserRole}

InitUsers ==
    /\ members = <<>>
    /\ users \in InitialUsers
    /\ attendance = <<>>
    /\ today = 1
    /\ sess = [s \in Procs |-> Idle]
    /\ marked = {}

\* the requests that write the users table, step by step
UserWrites(P, CreateIn, UpdateIn) ==
    \/ \E s \in P, user_data \in CreateIn : create_user_begin(s, user_data)
    \/ \E s \in P, native_enum \in BOOLEAN : create_user_commit(s, native_enum)
    \/ \E s \in P, id \in 1..MaxUsers, user_data \in UpdateIn :
          update_user_begin(s, id, user_data)
    \/ \E s \in P, native_enum \in BOOLEAN : update_user_commit(s, native_enum)
    \/ \E s \in P, id \in 1..MaxUsers : delete_user_begin(s, id)
    \/ \E s \in P : delete_user_commit(s)

\* password requests
UserPasswords(P, Pw) ==
    \/ \E s \in P, id \in 1..MaxUsers, p \in Pw : reset_password(s, id, p)
    \/ \E s \in P, p, q \in Pw : change_password(s, p, q)

\* the requests that read the users table
UserReads(P) ==
    \/ \E s \in P, id \in 1..MaxUsers : get_user_call(s, id)
    \/ \E s \in P : get_users(s)
    \/ \E s \in P : get_current_user_info(s)

\* user directory writes, served concurrently for the seeded admin's token
NextUsers ==
    \/ \E s \in Procs, op \in {"create_user", "update_user", "delete_user"} :
          users_router(s, 1, op)
    \/ UserWrites(Procs, UserCreateInputs, UserUpdateInputs)
    \/ \E s \in Procs : Return(s)
SpecUsers == InitUsers /\ [][NextUsers]_vars

\* ------------------------------------------------------------ access policy
\* the member directory requests behind the members router
MemberCalls(P, CreateIn) ==
    \/ \E s \in P, member_data \in CreateIn : create_member_begin(s, member_data)
    \/ \E s \in P : create_member_commit(s)
    \/ \E s \in P, m \in MemberIds : get_member_call(s, m)
    \/ \E s \in P : get_members(s)
    \/ \E s \in P, m \in MemberIds : delete_member_call(s, m)

\* every authenticated endpoint, requested with every token, the requests
\* served one after the other
NextAccess ==
    \/ \E token \in Tokens, op \in UserOps : users_router("r1", token, op)
    \/ \E token \in Tokens, op \in AuthOps : auth_router("r1", token, op)
    \/ \E token \in Tokens, op \in MemberOps \ {"update_member"} :
          members_router("r1", token, op)
    \/ \E token \in Tokens, op \in AttendanceOps :
          attendance_router("r1", token, op)
    \/ UserWrites({"r1"}, {[email |-> "a@cms.com", username |-> "a",
                            full_name |-> "A", role |-> USER,
                            password |-> "Admin@123"]},
                  {NoFields, [role |-> USER], [is_active |-> FALSE],
                   [is_active |-> TRUE]})
    \/ UserPasswords({"r1"}, Passwords)
    \/ UserReads({"r1"})
    \/ MemberCalls({"r1"}, {[phone_number |-> "+1555", email |-> None]})
    \/ Return("r1")
SpecAccess == InitUsers /\ [][NextAccess]_vars


\* ------------------------------------------------------------- updates
\* AttendanceService.update_attendance for a body that may set status and
\* notes, null included; status is nullable=False
update_attendance_call(s, attendance_id, data) ==
    /\ sess[s].pc = "idle"
    /\ LET r == [Idle EXCEPT !.op = "update_attendance", !.pc = "done",
                             !.id = attendance_id, !.update_data = data]
           result == IF ~get_record_or_404(attendance_id) THEN NotFound
                     ELSE IF "status" \in DOMAIN data /\ data["status"] = None
                     THEN IntegrityError
                     ELSE OK
       IN /\ sess' = [sess EXCEPT ![s] = [r EXCEPT !.result = result]]
          /\ attendance' = IF result = OK
                           THEN [attendance EXCEPT ![attendance_id] =
                                    SetAttrs(@, data)]
                           ELSE attendance
    /\ UNCHANGED <<members, users, today, marked>>

\* bodies of update requests: no field, one field (a null, a value the
\* table holds already, a new value), two fields
AttendanceUpdates ==
    {NoFields, [status |-> ABSENT], [status |-> None], [notes |-> "left early"],
     [notes |-> None], [status |-> ABSENT, notes |-> "left early"]}
MemberUpdates ==
    {NoFields, [email |-> "a@cms.com"], [email |-> None],
     [phone_number |-> None], [email |-> "a@cms.com", phone_number |-> None]}
UserUpdates ==
    {NoFields, [full_name |-> "B"], [role |-> USER], [is_active |-> FALSE],
     [email |-> "admin@cms.com"], [email |-> None]}

\* update requests over the three tables, served one after the other for
\* the seeded admin's token, with the requests that create the rows
NextUpdate ==
    \/ users_router("r1", 1, "update_user")
    \/ \E user_data \in UserUpdates, id \in 1..MaxUsers :
          update_user_begin("r1", id, user_data)
    \/ \E native_enum \in BOOLEAN : update_user_commit("r1", native_enum)
    \/ \E op \in {"create_member", "update_member"} :
          members_router("r1", 1, op)
    \/ \E email \in {None, "a@cms.com"} :
          create_member_begin("r1", [phone_number |-> "+1555", email |-> email])
    \/ create_member_commit("r1")
    \/ \E m \in MemberIds, member_data \in MemberUpdates :
          update_member_begin("r1", m, member_data)
    \/ update_member_commit("r1")
    \/ \E m \in MemberIds : mark_attendance_begin("r1", m, NoDate, PRESENT, None)
    \/ mark_attendance_precheck("r1")
    \/ mark_attendance_commit("r1")
    \/ mark_attendance_reread("r1")
    \/ \E id \in 1..MaxRows, data \in AttendanceUpdates :
          update_attendance_call("r1", id, data)
    \/ Return("r1")
SpecUpdate == InitUsers /\ [][NextUpdate]_vars

\* ------------------------------------------------- soft-deleted rows
\* AttendanceService.get_attendance
get_attendance(s, attendance_id) ==
    /\ sess[s].pc = "idle"
    /\ sess' = [sess EXCEPT ![s] =
          IF get_record_or_404(attendance_id)
          THEN [Idle EXCEPT !.op = "get_attendance", !.pc = "done",
                            !.result = OK, !.id = attendance_id,
                            !.items = {attendance_id}]
          ELSE [Idle EXCEPT !.op = "get_attendance", !.pc = "done",
                            !.result = NotFound, !.id = attendance_id]]
    /\ UNCHANGED <<members, users, attendance, today, marked>>

\* AttendanceService.get_attendance_records without filters
get_attendance_records(s) ==
    /\ sess[s].pc = "idle"
    /\ sess' = [sess EXCEPT ![s] =
          [Idle EXCEPT !.op = "list_attendance", !.pc = "done", !.result = OK,
              !.items = {i \in DOMAIN attendance :
                            attendance[i].is_deleted = FALSE}]]
    /\ UNCHANGED <<members, users, attendance, today, marked>>

\* get, list, delete and mark requests over the three tables, served one
\* after the other for the seeded admin's token
NextDeleted ==
    \/ \E op \in {"get_user", "get_users", "delete_user"} :
          users_router("r1", 1, op)
    \/ \E op \in {"get_member", "get_members"} : members_router("r1", 1, op)
    \/ \E id \in 1..MaxUsers : delete_user_begin("r1", id)
    \/ delete_user_commit("r1")
    \/ \E id \in 1..MaxUsers : get_user_call("r1", id)
    \/ get_users("r1")
    \/ \E m \in MemberIds : get_member_call("r1", m)
    \/ get_members("r1")
    \/ \E id \in 1..MaxRows : get_attendance("r1", id)
    \/ get_attendance_records("r1")
    \/ Requests({"r1"}, {PRESENT}, {NoDate})
    \/ Quiet /\ Direct({PRESENT})
SpecDeleted == InitUsers /\ [][NextDeleted]_vars

\* ------------------------------------------------------- role migration
\* the labels of the userrole type before the migration: the names of the
\* old Python enum, as the migration's step 4 says, or their lower case, as
\* its downgrade creates them
ADMIN_NAME == "ADMIN"
USER_NAME  == "USER"
OldLabels  == {{ADMIN_NAME, USER_NAME}, SchemaUserRole}

\* SQL LOWER() on the role values that occur
LOWER(role) ==
    IF role = ADMIN_NAME THEN ADMIN ELSE IF role = USER_NAME THEN USER ELSE role

\* upgrade, step 4: the two UPDATE statements, for one row
upgrade_role(role) ==
    IF LOWER(role) = ADMIN THEN SUPER_ADMIN
    ELSE IF LOWER(role) = USER THEN CALLING_TEAM
    ELSE role

\* downgrade: its two UPDATE statements, for one row
downgrade_role(role) ==
    IF role = SUPER_ADMIN THEN ADMIN
    ELSE IF role \in {CALLING_TEAM, TEXTING_TEAM} THEN USER
    ELSE role

\* `table` with the role of row i replaced by new_role[i]
Rewritten(table, new_role) ==
    [i \in DOMAIN table |-> [table[i] EXCEPT !.role = new_role[i]]]
upgraded(table) ==
    Rewritten(table, [i \in DOMAIN table |-> upgrade_role(table[i].role)])
downgraded(table) ==
    Rewritten(table, [i \in DOMAIN table |-> downgrade_role(table[i].role)])

\* the role column holds labels of `labels` only
ColumnOf(table, labels) == \A i \in DOMAIN table : table[i].role \in labels

\* upgrade() on a store at the down revision
upgrade ==
    /\ \E labels \in OldLabels : ColumnOf(users, labels)
    /\ users' = upgraded(users)
    /\ UNCHANGED <<members, attendance, today, sess, marked>>

\* downgrade() on a store at this revision
downgrade ==
    /\ ColumnOf(users, UserRole)
    /\ users' = downgraded(users)
    /\ UNCHANGED <<members, attendance, today, sess, marked>>

\* a stored user: any role of `labels`, deleted or not, active or not
StoredUsers(labels) ==
    {[User("a@cms.com", "a", "A", role, "Admin@123") EXCEPT
         !.is_deleted = d, !.is_active = a] :
        role \in labels, d \in BOOLEAN, a \in BOOLEAN}

\* the users tables the migration may find, at either revision
InitMigration ==
    /\ members = <<>>
    /\ \E labels \in OldLabels \cup {UserRole} :
          users \in {t \in SeqsUpTo(StoredUsers(labels), MaxUsers) : Len(t) >= 1}
    /\ attendance = <<>>
    /\ today = 1
    /\ sess = [s \in Procs |-> Idle]
    /\ marked = {}

NextMigration == upgrade \/ downgrade
SpecMigration == InitMigration /\ [][NextMigration]_vars

\* ------------------------------------------------------------ pagination
\* config.py: Settings.DEFAULT_PAGE_SIZE, Settings.MAX_PAGE_SIZE
DEFAULT_PAGE_SIZE == 20
MAX_PAGE_SIZE     == 100

\* math.ceil(total / page_size) if total > 0 else 0
floor_pages(total, page_size) ==
    IF total > 0 THEN total \div page_size ELSE 0
total_pages(total, page_size) ==
    IF total > 0 THEN (total + page_size - 1) \div page_size ELSE 0

\* query.filter(is_deleted == False): the ids of the rows of `table` the
\* query matches, and the place of row i in the ordered result (the columns
\* of order_by are not among the modelled ones; the rows are taken by id)
Matching(table) == {i \in DOMAIN table : table[i].is_deleted = FALSE}
Place(table, i) == Cardinality({j \in Matching(table) : j <= i})

\* query.order_by(...).offset(skip).limit(limit).all()
OffsetLimit(table, skip, limit) ==
    {i \in Matching(table) : skip < Place(table, i) /\ Place(table, i) <= skip + limit}

\* endpoints/members.py list_members with MemberService.get_members, no
\* filter: Query(ge=1) on page, Query(ge=1, le=MAX_PAGE_SIZE) on page_size
list_members(s, page, page_size) ==
    /\ Handler(s, "get_members")
    /\ LET r     == [sess[s] EXCEPT !.pc = "done", !.page = page,
                                    !.page_size = page_size]
           skip  == (page - 1) * page_size
           total == Cardinality(Matching(members))
       IN sess' = [sess EXCEPT ![s] =
             IF page < 1 \/ page_size < 1 \/ page_size > MAX_PAGE_SIZE
             THEN [r EXCEPT !.result = Unprocessable]
             ELSE [r EXCEPT !.result = OK,
                            !.items = OffsetLimit(members, skip, page_size),
                            !.total = total,
                            !.total_pages = total_pages(total, page_size)]]
    /\ UNCHANGED <<members, users, attendance, today, marked>>

\* page and page_size parameters of list requests
Pages     == 0..MaxPage
PageSizes == (0..MaxPageSize)
               \cup {DEFAULT_PAGE_SIZE, MAX_PAGE_SIZE, MAX_PAGE_SIZE + 1}

\* a members table of n non-deleted rows and a soft-deleted row at each
\* place of `hidden`
Listed(n, hidden) ==
    [i \in 1..(n + Cardinality(hidden)) |->
        [Member("+1555", None) EXCEPT !.is_deleted = (i \in hidden)]]

InitList ==
    /\ \E n \in 0..MaxListed, hidden \in SUBSET (1..MaxHidden) :
          members = Listed(n, hidden)
    /\ users = <<DefaultAdmin>>
    /\ attendance = <<>>
    /\ today = 1
    /\ sess = [s \in Procs |-> Idle]
    /\ marked = {}

\* list requests of the seeded admin, one after the other
NextList ==
    \/ members_router("r1", 1, "get_members")
    \/ \E page \in Pages, page_size \in PageSizes :
          list_members("r1", page, page_size)
    \/ Return("r1")
SpecList == InitList /\ [][NextList]_vars

\* ------------------------------------------------ create_member requests
\* a required field the request body does not carry
Missing == "missing"

\* MemberCreate validation: the required fields are present (first_name
\* stands for them) and date_of_birth is not after date.today()
ValidMember(body) ==
    body.first_name # Missing /\ body.date_of_birth <= today

\* POST /members: the body is validated, then MemberService.create_member
\* runs up to db.add
create_member_request(s, body) ==
    IF ValidMember(body)
    THEN create_member_begin(s, body)
    ELSE /\ Handler(s, "create_member")
         /\ sess' = [sess EXCEPT ![s] =
               [sess[s] EXCEPT !.pc = "done", !.result = Unprocessable,
                               !.body = body]]
         /\ UNCHANGED <<members, users, attendance, today, marked>>

\* bodies of POST /members
MemberBodies ==
    [first_name : {"Test", Missing}, date_of_birth : Dates,
     phone_number : Phones, email : Emails \cup {None}]

\* create, get, list and delete requests of the member directory, served
\* one after the other for the seeded admin's token
NextCreate ==
    \/ \E op \in {"create_member", "get_member", "get_members", "delete_member"} :
          members_router("r1", 1, op)
    \/ \E body \in MemberBodies : create_member_request("r1", body)
    \/ create_member_commit("r1")
    \/ \E m \in MemberIds : get_member_call("r1", m)
    \/ get_members("r1")
    \/ \E m \in MemberIds : delete_member_call("r1", m)
    \/ Return("r1")
SpecCreate == Init /\ [][NextCreate]_vars

\* ------------------------------------------- attendance rows over time
\* every request that reads or writes the attendance table, with member
\* create, update and delete, served one after the other as the days pass
NextFrame ==
    \/ \E m \in MemberIds : mark_attendance_begin("r1", m, NoDate, PRESENT, None)
    \/ mark_attendance_precheck("r1")
    \/ mark_attendance_commit("r1")
    \/ mark_attendance_reread("r1")
    \/ \E m \in MemberIds : confirm_and_mark_begin("r1", m, NoDate, PRESENT)
    \/ confirm_and_mark_precheck("r1")
    \/ confirm_and_mark_commit("r1")
    \/ confirm_and_mark_reread("r1")
    \/ \E ids \in SeqsUpTo(MemberIds, MaxIds) :
          bulk_mark_attendance_begin("r1", ids, NoDate, PRESENT, None)
    \/ bulk_mark_attendance_loop("r1")
    \/ bulk_mark_attendance_commit("r1")
    \/ bulk_mark_attendance_requery("r1")
    \/ Return("r1")
    \/ Quiet /\ create_member("+1555")
    \/ Quiet /\ \E m \in MemberIds : delete_member(m)
    \/ Quiet /\ \E id \in 1..MaxRows : update_attendance(id, ABSENT, None)
    \/ Quiet /\ \E id \in 1..MaxRows : delete_attendance(id)
    \/ Quiet /\ NextDay
    \/ members_router("r1", 1, "update_member")
    \/ \E m \in MemberIds : update_member_begin("r1", m, [phone_number |-> None])
    \/ update_member_commit("r1")
SpecFrame == InitUsers /\ [][NextFrame]_vars

\* ------------------------------------------------ attendance soft delete
\* AttendanceService.delete_attendance as a request: 404 unless the id
\* resolves to a non-deleted row, else the flag is set and committed
delete_attendance_call(s, attendance_id) ==
    /\ sess[s].pc = "idle"
    /\ LET r == [Idle EXCEPT !.op = "delete_attendance", !.pc = "done",
                             !.id = attendance_id]
           found == get_record_or_404(attendance_id)
       IN /\ sess' = [sess EXCEPT ![s] =
                [r EXCEPT !.result = IF found THEN OK ELSE NotFound]]
          /\ attendance' = IF found
                           THEN [attendance EXCEPT ![attendance_id].is_deleted = TRUE]
                           ELSE attendance
    /\ UNCHANGED <<members, users, today, marked>>

\* get, update and delete requests for attendance ids, among the requests
\* that add rows, served one after the other
NextSoftDelete ==
    \/ Requests({"r1"}, {PRESENT}, {NoDate})
    \/ Quiet /\ Direct({ABSENT})
    \/ \E id \in 1..MaxRows : get_attendance("r1", id)
    \/ \E id \in 1..MaxRows, data \in {[status |-> ABSENT], [notes |-> None]} :
          update_attendance_call("r1", id, data)
    \/ \E id \in 1..MaxRows : delete_attendance_call("r1", id)
SpecSoftDelete == Init /\ [][NextSoftDelete]_vars

\* ------------------------------------------------------ default admin
\* UserService.create_default_admin, called by main.py when the process
\* starts (no request is being served): count the non-deleted users,
\* return None if there is one, else add the admin and commit; the commit
\* is inside no try block that catches, and User.email and User.username
\* are unique over every row
create_default_admin(s) ==
    /\ \A t \in Procs : sess[t].pc = "idle"
    /\ LET user_count == Cardinality({i \in DOMAIN users :
                                         users[i].is_deleted = FALSE})
           r == [Idle EXCEPT !.op = "create_default_admin", !.pc = "done"]
           ok == /\ uq_users("email", 0, DefaultAdmin.email)
                 /\ uq_users("username", 0, DefaultAdmin.username)
       IN IF user_count > 0
          THEN /\ users' = users
               /\ sess' = [sess EXCEPT ![s] = [r EXCEPT !.result = None]]
          ELSE IF ~ok
          THEN /\ users' = users
               /\ sess' = [sess EXCEPT ![s] = [r EXCEPT !.result = IntegrityError]]
          ELSE /\ Len(users) < MaxUsers
               /\ users' = Append(users, DefaultAdmin)
               /\ sess' = [sess EXCEPT ![s] =
                     [r EXCEPT !.result = Created, !.id = Len(users) + 1]]
    /\ UNCHANGED <<members, attendance, today, marked>>

\* the users table when the process starts: empty at the first start, else
\* the table of a deployment
InitSeed ==
    /\ members = <<>>
    /\ users \in {<<>>} \cup InitialUsers
    /\ attendance = <<>>
    /\ today = 1
    /\ sess = [s \in Procs |-> Idle]
    /\ marked = {}

\* process starts, and delete_user requests served concurrently in between
NextSeed ==
    \/ create_default_admin("r1")
    \/ \E s \in Procs, token \in 1..MaxUsers : users_router(s, token, "delete_user")
    \/ \E s \in Procs, id \in 1..MaxUsers : delete_user_begin(s, id)
    \/ \E s \in Procs : delete_user_commit(s)
    \/ \E s \in Procs : Return(s)
SpecSeed == InitSeed /\ [][NextSeed]_vars

\* ------------------------------------------------------------ passwords
\* process starts, and create_user, reset_password and change_password
\* requests with every user's token, served one after the other
NextPassword ==
    \/ create_default_admin("r1")
    \/ \E token \in 1..MaxUsers, op \in {"create_user", "reset_password"} :
          users_router("r1", token, op)
    \/ \E token \in 1..MaxUsers : auth_router("r1", token, "change_password")
    \/ create_user_begin("r1", [email |-> "a@cms.com", username |-> "a",
                                full_name |-> "A", role |-> USER,
                                password |-> "Admin@123"])
    \/ \E native_enum \in BOOLEAN : create_user_commit("r1", native_enum)
    \/ UserPasswords({"r1"}, Passwords)
    \/ Return("r1")
SpecPassword == InitSeed /\ [][NextPassword]_vars

\* =====================================================================
\* Properties
\* =====================================================================
IsMarking(r) == r.op \in {"mark", "confirm"}
Stepped(s) == sess'[s] # sess[s]

\* C1: in every reachable state there is at most one non-deleted Attendance
\* row for each (member, date) pair.
C1_OneLiveRowPerPair ==
    \A m \in MemberIds, d \in Dates :
        Cardinality(ExistingIds(attendance, m, d)) <= 1

\* a request has been refused for a pair that holds a row, next to a
\* soft-deleted row
C1_Witness ==
    /\ Len(attendance) = 2
    /\ \E i, j \in DOMAIN attendance :
          attendance[i].is_deleted /\ ~attendance[j].is_deleted
    /\ \E s \in Procs :
          /\ sess[s].op \in {"mark", "confirm", "bulk"}
          /\ sess[s].result = Conflict

\* C2 as stated: once mark(m, d) has returned 201, every later mark(m, d)
\* and confirmAndMark(m, d) ends with Conflict.
C2_LaterMarkConflicts ==
    \A s \in Procs :
        (IsMarking(sess[s]) /\ sess[s].after /\ sess[s].pc = "done")
            => sess[s].result = Conflict

\* C2 as amended: once mark(m, d) has returned 201, every later mark(m, d)
\* and confirmAndMark(m, d) fails, with Conflict, or with NotFound when m
\* has been soft-deleted, and no step of the failed call adds or changes an
\* Attendance row.
C2_LaterMarkFails ==
    [][\A s \in Procs :
          (IsMarking(sess'[s]) /\ sess'[s].after /\ Stepped(s)) =>
             /\ attendance' = attendance
             /\ sess'[s].pc = "done" =>
                   \/ sess'[s].result = Conflict
                   \/ /\ sess'[s].result = NotFound
                      /\ members'[sess'[s].member_id].is_deleted]_vars

\* a later mark has been refused with Conflict although the earlier row is
\* soft-deleted
C2_Witness ==
    \E s \in Procs :
        /\ IsMarking(sess[s]) /\ sess[s].after /\ sess[s].pc = "done"
        /\ sess[s].result = Conflict
        /\ ExistingIds(attendance, sess[s].member_id, sess[s].target_date) = {}

\* two requests for the same pair that have both passed the duplicate guard
BothPassed(s, t) ==
    /\ s # t
    /\ IsMarking(sess[s]) /\ IsMarking(sess[t])
    /\ sess[s].pc = "commit" /\ sess[t].pc = "commit"
    /\ sess[s].member_id = sess[t].member_id
    /\ sess[s].target_date = sess[t].target_date

\* C3: when two mark/confirmAndMark requests for the same (member, date)
\* have both passed the pre-check before either commits, the first of them
\* to commit inserts its row (the other is then refused by the constraint),
\* and exactly one row of the pair exists afterwards.
C3_ExactlyOneCommits ==
    [][\A s, t \in Procs :
          (BothPassed(s, t) /\ Stepped(s)) =>
             /\ sess'[s].pc = "reread"
             /\ Cardinality(PairIds(attendance', sess[s].member_id,
                                    sess[s].target_date)) = 1]_vars

\* C4: in the result of a bulkMark call, an id that was skipped has no
\* record in `created`, and every row the call inserted is in `created`.
C4_SkippedNotCreated ==
    \A s \in Procs :
        (sess[s].op = "bulk" /\ sess[s].pc = "done" /\ sess[s].result = Created)
            => /\ \A i \in sess[s].created :
                     attendance[i].member_id \notin Range(sess[s].skipped)
               /\ sess[s].inserted \subseteq sess[s].created

\* input ids of a bulk call for which the call inserted no row
NotInserted(r) ==
    {id \in Range(r.member_ids) :
        \A i \in r.inserted : attendance[i].member_id # id}

\* C5: for every successful bulkMark call, totalCreated is the number of
\* rows the call inserted, totalSkipped the number of input ids for which
\* it inserted none, and their sum the number of distinct input ids.
C5_TotalsCountTheCall ==
    \A s \in Procs :
        (sess[s].op = "bulk" /\ sess[s].pc = "done" /\ sess[s].result = Created)
            => /\ total_created(sess[s]) = Cardinality(sess[s].inserted)
               /\ total_skipped(sess[s]) = Cardinality(NotInserted(sess[s]))
               /\ total_created(sess[s]) + total_skipped(sess[s])
                     = Cardinality(Range(sess[s].member_ids))

\* an input list without repeated ids
NoRepeats(ids) == Cardinality(Range(ids)) = Len(ids)

\* C6: with no concurrent writer, every bulkMark call succeeds, and every
\* input id it inserted no row for is reported in `skipped`; stated for the
\* input lists without repeated ids.
C6_BulkNeverAborts ==
    \A s \in Procs :
        (sess[s].op = "bulk" /\ sess[s].pc = "done" /\ NoRepeats(sess[s].member_ids))
            => /\ sess[s].result = Created
               /\ NotInserted(sess[s]) \subseteq Range(sess[s].skipped)

\* C7: a bulkMark call writes in one step only, its commit: either all of
\* its non-skipped rows are appended, or the call ends with Conflict and
\* none is; no other step of the call changes the table or ends the call
\* with an error.
C7_BulkAtomic ==
    [][\A s \in Procs :
          (sess[s].op = "bulk" /\ Stepped(s)) =>
             \/ /\ sess[s].pc = "commit"
                /\ sess'[s].pc = "requery"
                /\ attendance' = attendance \o sess[s].pending
             \/ /\ attendance' = attendance
                /\ sess'[s].pc = "done" =>
                      \/ sess[s].pc = "requery" /\ sess'[s].result = Created
                      \/ sess[s].pc = "commit" /\ sess'[s].result = Conflict]_vars

\* a batch of two different members was refused although one of them has
\* no row at all: its row was rolled back with the batch
C7_Witness ==
    \E s \in Procs :
        /\ sess[s].op = "bulk" /\ sess[s].pc = "done"
        /\ sess[s].result = Conflict
        /\ sess[s].skipped = <<>>
        /\ Len(sess[s].member_ids) = 2
        /\ \E id \in Range(sess[s].member_ids) :
              PairIds(attendance, id, sess[s].target_date) = {}

\* C8: every row a confirmAndMark call adds has status present, whatever
\* status the request body carries.
C8_ConfirmStoresPresent ==
    [][\A s \in Procs :
          (sess[s].op = "confirm" /\ Stepped(s)) =>
             \/ attendance' = attendance
             \/ /\ Len(attendance') = Len(attendance) + 1
                /\ SubSeq(attendance', 1, Len(attendance)) = attendance
                /\ attendance'[Len(attendance')].status = PRESENT]_vars

\* a confirm whose body carried status absent has committed a present row
C8_Witness ==
    \E s \in Procs :
        /\ sess[s].op = "confirm" /\ sess[s].pc = "reread"
        /\ sess[s].status = ABSENT
        /\ \A i \in sess[s].inserted : attendance[i].status = PRESENT

\* C9: in the QR flow, requests served one after the other: a lookup that
\* finds a member reports alreadyMarkedToday exactly when the member has a
\* non-deleted row dated today; a confirm for a pair without any row
\* commits one row with the QR notes and status present and returns it; a
\* confirm for a pair that has a non-deleted row (from a previous confirm
\* or a staff mark) ends with Conflict, and the pair keeps exactly one row.
C9_QRFlow ==
    [][\A s \in Procs :
          LET m == sess[s].member_id
              d == sess[s].target_date
          IN /\ (sess'[s].op = "lookup" /\ Stepped(s) /\ sess'[s].result = OK) =>
                   sess'[s].already_marked_today =
                      (ExistingIds(attendance, sess'[s].member_id, today) # {})
             /\ (sess[s].op = "confirm" /\ Stepped(s)) =>
                   /\ (sess[s].pc = "precheck" /\ ExistingIds(attendance, m, d) # {}) =>
                         /\ sess'[s].pc = "done" /\ sess'[s].result = Conflict
                         /\ attendance' = attendance
                         /\ Cardinality(PairIds(attendance', m, d)) = 1
                   /\ (sess[s].pc = "precheck" /\ PairIds(attendance, m, d) = {}) =>
                         sess'[s].pc = "commit"
                   /\ (sess[s].pc = "commit" /\ PairIds(attendance, m, d) = {}) =>
                         /\ sess'[s].pc = "reread"
                         /\ attendance' = Append(attendance,
                                             Attendance(m, d, PRESENT, QRNotes))
                   /\ sess[s].pc = "reread" => sess'[s].result = Created]_vars

\* a second confirm has been refused for a pair whose row, non-deleted, has
\* the QR notes
C9_Witness ==
    \E s \in Procs :
        /\ sess[s].op = "confirm" /\ sess[s].pc = "done"
        /\ sess[s].result = Conflict
        /\ \E i \in ExistingIds(attendance, sess[s].member_id, sess[s].target_date) :
              attendance[i].notes = QRNotes

\* C10: a lookupByPhone request, whether it returns a member or NotFound,
\* leaves the members, users and attendance tables as they are.
C10_LookupReadOnly ==
    [][\A s \in Procs :
          (sess'[s].op = "lookup" /\ Stepped(s) /\ sess[s].pc = "idle") =>
             UNCHANGED <<members, users, attendance>>]_vars

\* a lookup has found a member who has no row for today, while the table
\* has room for one
C10_Witness ==
    \E s \in Procs :
        /\ sess[s].op = "lookup" /\ sess[s].pc = "done" /\ sess[s].result = OK
        /\ ~sess[s].already_marked_today
        /\ PairIds(attendance, sess[s].member_id, today) = {}
        /\ Len(attendance) < MaxRows

C19_LiveEmailsUnique ==
    \A i, j \in DOMAIN members :
        (/\ i # j
         /\ ~members[i].is_deleted /\ ~members[j].is_deleted
         /\ members[i].email # None)
            => members[i].email # members[j].email

\* two requests had both passed the email pre-check with the same email;
\* one has committed it and the other is about to commit
C19_Witness ==
    \E s, t \in Procs :
        /\ sess[s].op = "create_member" /\ sess[s].pc = "commit"
        /\ sess[t].pc = "done" /\ sess[t].result \in {OK, Created}
        /\ sess[t].id \in DOMAIN members
        /\ ~members[sess[t].id].is_deleted
        /\ members[sess[t].id].email = sess[s].pending[1].email
        /\ sess[s].pending[1].email # None

\* C13: every reachable state of the user directory contains at least one
\* non-deleted user whose role is super_admin.
C13_SuperAdminRemains ==
    \E i \in DOMAIN users :
        users[i].role = SUPER_ADMIN /\ users[i].is_deleted = FALSE

\* a create_member request that passed the email pre-check and finds, at
\* its commit, the email held by a non-deleted member: it lost the race
LostRace(s) ==
    /\ sess[s].op = "create_member" /\ sess[s].pc = "commit"
    /\ sess[s].pending[1].email # None
    /\ \E i \in DOMAIN members :
          /\ members[i].email = sess[s].pending[1].email
          /\ members[i].is_deleted = FALSE

\* C20: of two create_member requests with the same email that have both
\* passed the pre-check, one commits and the other, stopped by the
\* uniqueness constraint at its commit, stores nothing and reports Conflict.
C20_RaceLoserConflicts ==
    [][\A s \in Procs :
          (LostRace(s) /\ Stepped(s)) =>
             /\ members' = members
             /\ sess'[s].result = Conflict]_vars

CallerIs(s, role) ==
    /\ sess'[s].caller \in DOMAIN users
    /\ users[sess'[s].caller].is_deleted = FALSE
    /\ users[sess'[s].caller].is_active
    /\ users[sess'[s].caller].role = role

\* s takes the first step of a request for one of the endpoints `ops`
Begins(s, ops) ==
    sess[s].pc = "idle" /\ Stepped(s) /\ sess'[s].op \in ops

\* C16: every authenticated attendance action (mark, bulk mark, list, get,
\* update, soft-delete) requested by a texting_team caller is rejected with
\* Forbidden and changes no Attendance row, and the same action requested by
\* a super_admin or calling_team caller passes the gate.
C16_AttendanceGate ==
    [][\A s \in Procs :
          Begins(s, AttendanceOps) =>
             /\ CallerIs(s, TEXTING_TEAM) =>
                   /\ sess'[s].pc = "done"
                   /\ sess'[s].result = Forbidden
                   /\ attendance' = attendance
             /\ (CallerIs(s, SUPER_ADMIN) \/ CallerIs(s, CALLING_TEAM)) =>
                   sess'[s].pc = "handler"]_vars

\* C15: every user-directory action (create, list, get, update, delete,
\* reset-password) is performed only when the caller's stored role is
\* super_admin; requested by a calling_team or texting_team caller it is
\* rejected with Forbidden and no stored state changes.
C15_AdminOnly ==
    [][\A s \in Procs :
          /\ Begins(s, UserOps) =>
                /\ (CallerIs(s, CALLING_TEAM) \/ CallerIs(s, TEXTING_TEAM)) =>
                      /\ sess'[s].pc = "done"
                      /\ sess'[s].result = Forbidden
                      /\ UNCHANGED <<members, users, attendance>>
                /\ sess'[s].pc = "handler" => CallerIs(s, SUPER_ADMIN)
          /\ (Stepped(s) /\ sess[s].pc = "handler" /\ sess[s].op \in UserOps) =>
                /\ users[sess[s].caller].role = SUPER_ADMIN
                /\ users[sess[s].caller].is_deleted = FALSE]_vars

\* a user-directory request of a calling_team or texting_team user was
\* answered Forbidden
C15_Witness ==
    \E s \in Procs :
        /\ sess[s].op \in UserOps
        /\ sess[s].pc = "done" /\ sess[s].result = Forbidden
        /\ sess[s].caller \in DOMAIN users
        /\ users[sess[s].caller].role \in {CALLING_TEAM, TEXTING_TEAM}
        /\ users[sess[s].caller].is_active
        /\ users[sess[s].caller].is_deleted = FALSE

\* the endpoints behind a dependency on the current user
GatedOps == UserOps \cup MemberOps \cup AuthOps \cup AttendanceOps

\* C17: every gated action is performed only for a caller whose credential
\* resolves, when the request is made, to a non-deleted and active user
\* row; a request carrying the credential of a user that has been
\* soft-deleted or deactivated is rejected (Unauthorized or Forbidden) and
\* changes no state.
C17_ActiveCallerOnly ==
    [][\A s \in Procs :
          /\ Begins(s, GatedOps) =>
                LET u == sess'[s].caller
                IN /\ sess'[s].pc = "handler" =>
                         /\ u \in DOMAIN users
                         /\ users[u].is_deleted = FALSE
                         /\ users[u].is_active
                   /\ (u \in DOMAIN users
                          /\ (users[u].is_deleted \/ ~users[u].is_active)) =>
                         /\ sess'[s].pc = "done"
                         /\ sess'[s].result \in {Unauthorized, Forbidden}
                         /\ UNCHANGED <<members, users, attendance>>
          /\ (Stepped(s) /\ sess[s].pc = "handler") =>
                /\ users[sess[s].caller].is_deleted = FALSE
                /\ users[sess[s].caller].is_active]_vars

\* the get or list request that s completes in this step returns no soft-deleted
\* row of `table`, and its get of a soft-deleted id is answered NotFound
HidesDeleted(s, table) ==
    /\ \A i \in sess'[s].items :
          i \in DOMAIN table /\ table[i].is_deleted = FALSE
    /\ (sess'[s].id \in DOMAIN table /\ table[sess'[s].id].is_deleted) =>
          sess'[s].result = NotFound

\* s completes a request for one of the endpoints `ops` in this step
Completes(s, ops) ==
    Stepped(s) /\ sess'[s].pc = "done" /\ sess'[s].op \in ops

\* C12: once a member, user or attendance row is soft-deleted, no get or
\* list call for that entity type returns it; mark and confirmAndMark with a
\* soft-deleted member id fail with NotFound, and no call (bulkMark
\* included) creates an Attendance row for a soft-deleted member.
C12_DeletedStayHidden ==
    [][/\ \A s \in Procs :
            /\ Completes(s, {"get_member", "get_members"}) =>
                  HidesDeleted(s, members)
            /\ Completes(s, {"get_user", "get_users"}) =>
                  HidesDeleted(s, users)
            /\ Completes(s, {"get_attendance", "list_attendance"}) =>
                  HidesDeleted(s, attendance)
            /\ (/\ Begins(s, {"mark", "confirm"})
                /\ sess'[s].member_id \in DOMAIN members
                /\ members[sess'[s].member_id].is_deleted) =>
                  /\ sess'[s].pc = "done"
                  /\ sess'[s].result = NotFound
       /\ \A i \in DOMAIN attendance' \ DOMAIN attendance :
            /\ attendance'[i].member_id \in DOMAIN members
            /\ members[attendance'[i].member_id].is_deleted = FALSE]_vars

\* a get of a soft-deleted user was answered NotFound, while the members
\* and attendance tables hold soft-deleted rows too
C12_Witness ==
    \E s \in Procs :
        /\ sess[s].op = "get_user" /\ sess[s].result = NotFound
        /\ sess[s].id \in DOMAIN users /\ users[sess[s].id].is_deleted
        /\ \E m \in DOMAIN members : members[m].is_deleted
        /\ \E i \in DOMAIN attendance : attendance[i].is_deleted

\* from `table` to `after`, no row is added, no row but `id` changes, and
\* row `id` changes in no field outside `fields`
OnlyFields(table, after, id, fields) ==
    /\ DOMAIN after = DOMAIN table
    /\ \A i \in DOMAIN table :
          \A f \in DOMAIN table[i] :
              after[i][f] # table[i][f] => (i = id /\ f \in fields)

\* the step of an update request whose body is `update_data` keeps the
\* tables within the fields the body sets, and an update answered OK has
\* stored them
UpdateFrame(s, update_data) ==
    LET id == sess'[s].id
        op == sess'[s].op
        fields == DOMAIN update_data
        stored(after) ==
            (sess'[s].pc = "done" /\ sess'[s].result = OK) =>
                \A f \in fields : after[id][f] = update_data[f]
    IN /\ op = "update_member" =>
             /\ OnlyFields(members, members', id, fields)
             /\ stored(members')
             /\ UNCHANGED <<users, attendance>>
       /\ op = "update_user" =>
             /\ OnlyFields(users, users', id, fields)
             /\ stored(users')
             /\ UNCHANGED <<members, attendance>>
       /\ op = "update_attendance" =>
             /\ OnlyFields(attendance, attendance', id, fields)
             /\ stored(attendance')
             /\ UNCHANGED <<members, users>>

\* C18: for attendance, member and user update, a request with no field
\* set leaves every field of the target row unchanged, and a request with
\* exactly one field set changes only that field of the target row; neither
\* changes any other row.
C18_UpdateFrame ==
    [][\A s \in Procs :
          (/\ Stepped(s)
           /\ sess'[s].op \in {"update_member", "update_user", "update_attendance"}
           /\ Cardinality(DOMAIN sess'[s].update_data) <= 1) =>
              /\ UpdateFrame(s, sess'[s].update_data)
              /\ DOMAIN sess'[s].update_data = {} =>
                    UNCHANGED <<members, users, attendance>>]_vars

\* an update_member request that set the email only was answered OK, with
\* another member in the table and two attendance rows
C18_Witness ==
    \E s \in Procs :
        /\ sess[s].op = "update_member"
        /\ sess[s].pc = "done" /\ sess[s].result = OK
        /\ DOMAIN sess[s].update_data = {"email"}
        /\ members[sess[s].id].email = sess[s].update_data["email"]
        /\ Len(members) = 2
        /\ Len(attendance) = 2

\* a create_user request whose row collides with no stored email or username
\* is at its commit
CommitsFresh(s) ==
    /\ sess[s].pc = "commit" /\ sess[s].op = "create_user"
    /\ Stepped(s)
    /\ uq_users("email", 0, sess[s].pending[1].email)
    /\ uq_users("username", 0, sess[s].pending[1].username)

\* C21: every stored user, seeded, created by create_user or modified by
\* update_user, has a role among super_admin, calling_team and texting_team,
\* and create_user assigns one of them: a create_user request that collides
\* with no stored row is answered Created and stores such a role.
C21_StoredRoles ==
    /\ [](\A i \in DOMAIN users : users[i].role \in UserRole)
    /\ [][\A s \in Procs :
             CommitsFresh(s) =>
                /\ sess'[s].result = Created
                /\ users'[sess'[s].id].role \in UserRole]_vars

\* C22: the role migration maps every stored admin to super_admin and every
\* stored user to calling_team, and it is reversible: upgrade then downgrade
\* restores every user's role, and downgrade then upgrade restores every
\* user's role.
C22_MigrationReversible ==
    /\ (\E labels \in OldLabels : ColumnOf(users, labels)) =>
          /\ \A i \in DOMAIN users :
                /\ LOWER(users[i].role) = ADMIN =>
                      upgraded(users)[i].role = SUPER_ADMIN
                /\ LOWER(users[i].role) = USER =>
                      upgraded(users)[i].role = CALLING_TEAM
          /\ downgraded(upgraded(users)) = users
    /\ ColumnOf(users, UserRole) => upgraded(downgraded(users)) = users

\* least/greatest of two numbers, and the least k with k * n >= m
Min(a, b) == IF a <= b THEN a ELSE b
Max(a, b) == IF a >= b THEN a ELSE b
Ceil(m, n) == CHOOSE k \in 0..m : k * n >= m /\ \A j \in 0..m : j * n >= m => k <= j

\* the list response of s, completed in this step, is the page the request
\* asked for
PageOf(s) ==
    LET r     == sess'[s]
        skip  == (r.page - 1) * r.page_size
        total == Cardinality({i \in DOMAIN members : members[i].is_deleted = FALSE})
    IN /\ r.result = OK
       /\ r.total = total
       /\ r.items \subseteq {i \in DOMAIN members : members[i].is_deleted = FALSE}
       /\ Cardinality(r.items) = Min(r.page_size, Max(0, total - skip))
       /\ r.total_pages = Ceil(total, r.page_size)
       /\ total = 0 => r.total_pages = 0

\* s answers a list request in this step
Lists(s) == Handler(s, "get_members") /\ Stepped(s)

\* C23: every list call with page >= 1 and pageSize >= 1 over `total`
\* matching non-deleted rows returns min(pageSize, max(0, total - skip))
\* items for skip = (page-1)*pageSize, with total, page, pageSize and
\* totalPages = ceil(total/pageSize), 0 when total is 0.
C23_EveryPage ==
    [][\A s \in Procs :
          (Lists(s) /\ sess'[s].page >= 1 /\ sess'[s].page_size >= 1) =>
              PageOf(s)]_vars

\* C23, amended: the same for 1 <= pageSize <= MAX_PAGE_SIZE; a list call
\* with a larger pageSize is rejected by validation and returns nothing.
C23_PageWithinMax ==
    [][\A s \in Procs :
          /\ (/\ Lists(s) /\ sess'[s].page >= 1
              /\ sess'[s].page_size >= 1
              /\ sess'[s].page_size <= MAX_PAGE_SIZE) => PageOf(s)
          /\ (Lists(s) /\ sess'[s].page_size > MAX_PAGE_SIZE) =>
                /\ sess'[s].result = Unprocessable
                /\ sess'[s].items = {}]_vars

\* 45 rows listed 20 per page: page 3 of 3 holds 5 items
C23_Witness ==
    \E s \in Procs :
        /\ sess[s].op = "get_members" /\ sess[s].result = OK
        /\ sess[s].total = 45 /\ sess[s].page_size = DEFAULT_PAGE_SIZE
        /\ sess[s].page = 3 /\ sess[s].total_pages = 3
        /\ Cardinality(sess[s].items) = 5
        /\ \E i \in DOMAIN members : members[i].is_deleted

\* C24: in every reachable state, every non-deleted Attendance row references
\* a Member that exists and is not soft-deleted, also after delete_member
\* has been applied to a member who has attendance rows.
C24_LiveRowsLiveMembers ==
    \A i \in DOMAIN attendance :
        attendance[i].is_deleted = FALSE =>
            /\ attendance[i].member_id \in DOMAIN members
            /\ members[attendance[i].member_id].is_deleted = FALSE

\* C25: with no concurrent writer, mark(m, d) and confirmAndMark(m, d) for a
\* live member fail with Conflict only if a non-deleted Attendance row for
\* (m, d) exists; otherwise the call creates a non-deleted row, also after
\* the only record for (m, d) has been soft-deleted.
C25_ConflictOnlyOnLiveRow ==
    [][\A s \in Procs :
          (/\ Stepped(s) /\ IsMarking(sess[s])
           /\ ExistingIds(attendance, sess[s].member_id, sess[s].target_date) = {}) =>
              /\ sess'[s].result # Conflict
              /\ sess[s].pc = "commit" =>
                    ExistingIds(attendance', sess[s].member_id,
                                sess[s].target_date) # {}]_vars

\* a non-deleted member holds `email`
Held(email) ==
    \E i \in DOMAIN members :
        members[i].email = email /\ members[i].is_deleted = FALSE

\* s serves a create_member request in this step, from its validation to
\* its commit
Creates(s) == sess[s].op = "create_member" /\ sess[s].pc # "done" /\ Stepped(s)

\* C26: create_member with valid required fields succeeds whenever no
\* non-deleted member holds the supplied email (or none is supplied), adding
\* exactly one non-deleted member with a fresh id, which get and list then
\* return; a request that fails validation or whose email is held by a
\* non-deleted member is rejected and adds no member.
C26_CreateMember ==
    [][\A s \in Procs :
          /\ Creates(s) =>
                LET body == sess'[s].body
                    id   == sess'[s].id
                IN IF /\ ValidMember(body)
                      /\ (body.email = None \/ ~Held(body.email))
                   THEN \/ sess'[s].pc = "commit" /\ members' = members
                        \/ /\ sess'[s].result = Created
                           /\ id = Len(members) + 1
                           /\ members' = Append(members, members'[id])
                           /\ members'[id].is_deleted = FALSE
                           /\ members'[id].email = body.email
                   ELSE /\ sess'[s].pc = "done"
                        /\ sess'[s].result \in {Unprocessable, BadRequest}
                        /\ members' = members
          /\ (/\ Completes(s, {"get_member"})
              /\ sess'[s].id \in DOMAIN members
              /\ members[sess'[s].id].is_deleted = FALSE) =>
                sess'[s].result = OK /\ sess'[s].items = {sess'[s].id}
          /\ (Completes(s, {"get_members"}) /\ sess'[s].result = OK) =>
                sess'[s].items =
                   {i \in DOMAIN members : members[i].is_deleted = FALSE}]_vars

\* the columns of an attendance row that are fixed when it is created
Fixed(row) == <<row.member_id, row.attendance_date, row.check_in_time>>

\* C27: after an Attendance row is created, no operation (update,
\* softDelete, later mark/bulkMark/confirmAndMark, member update or delete)
\* changes its member reference, attendance date or check-in timestamp;
\* update can change only status and notes.
C27_CreationColumnsFixed ==
    [][/\ \A i \in DOMAIN attendance :
             /\ i \in DOMAIN attendance'
             /\ Fixed(attendance'[i]) = Fixed(attendance[i])
       /\ \A i \in DOMAIN attendance :
             (\/ attendance'[i].status # attendance[i].status
              \/ attendance'[i].notes # attendance[i].notes) =>
                attendance' = [attendance EXCEPT
                                  ![i].status = attendance'[i].status,
                                  ![i].notes = attendance'[i].notes]]_vars

\* a row checked in on an earlier day has had its status changed by an
\* update, its member has lost the phone number and been deleted, and a
\* later row has been soft-deleted
C27_Witness ==
    \E i \in DOMAIN attendance :
        LET row == attendance[i]
        IN /\ row.status = ABSENT /\ row.notes = None
           /\ row.check_in_time < today
           /\ members[row.member_id].is_deleted
           /\ members[row.member_id].phone_number = None
           /\ \E j \in DOMAIN attendance : j > i /\ attendance[j].is_deleted

\* C28: attendance rows are never removed and the deleted flag is
\* monotonic: softDelete on a non-deleted row sets the flag; get, update
\* and softDelete on an id that is unknown or already soft-deleted fail
\* with NotFound and change nothing, so a second softDelete of the same id
\* fails and no operation ever turns a deleted row back into a non-deleted
\* one.
C28_SoftDeleteMonotonic ==
    [][/\ \A i \in DOMAIN attendance :
             /\ i \in DOMAIN attendance'
             /\ attendance[i].is_deleted => attendance'[i].is_deleted
       /\ \A s \in Procs :
             Completes(s, {"get_attendance", "update_attendance",
                           "delete_attendance"}) =>
                LET id == sess'[s].id
                IN IF id \in DOMAIN attendance /\ attendance[id].is_deleted = FALSE
                   THEN sess'[s].op = "delete_attendance" =>
                           /\ sess'[s].result = OK
                           /\ attendance' =
                                 [attendance EXCEPT ![id].is_deleted = TRUE]
                   ELSE /\ sess'[s].result = NotFound
                        /\ attendance' = attendance
                        /\ members' = members]_vars

\* a second softDelete of a row whose status an update had changed has
\* failed with NotFound, in a full table
C28_Witness ==
    /\ sess["r1"].op = "delete_attendance" /\ sess["r1"].pc = "done"
    /\ sess["r1"].result = NotFound
    /\ sess["r1"].id \in DOMAIN attendance
    /\ attendance[sess["r1"].id].is_deleted
    /\ attendance[sess["r1"].id].status = ABSENT
    /\ Len(attendance) = MaxRows

\* C30: default-admin seeding is idempotent: create_default_admin inserts
\* exactly one active super_admin with must-change-password set when there
\* are zero non-deleted users, and inserts nothing and changes nothing when
\* at least one non-deleted user exists, so running it twice in a row
\* yields the same state as running it once.
C30_SeedingIdempotent ==
    [][\A s \in Procs :
          Completes(s, {"create_default_admin"}) =>
             IF \A i \in DOMAIN users : users[i].is_deleted
             THEN /\ Len(users') = Len(users) + 1
                  /\ users' = Append(users, users'[Len(users')])
                  /\ LET admin == users'[Len(users')]
                     IN /\ admin.role = SUPER_ADMIN
                        /\ admin.is_active /\ ~admin.is_deleted
                        /\ admin.must_change_password
             ELSE users' = users]_vars

\* C29: a user's must-change-password flag is true after default-admin
\* seeding, after create_user and after every reset_password, and becomes
\* false only through a successful change_password; change_password with a
\* wrong current password fails and leaves both the stored password hash
\* and the flag unchanged.
C29_MustChangePassword ==
    [][/\ \A i \in DOMAIN users' :
             i \notin DOMAIN users => users'[i].must_change_password
       /\ \A i \in DOMAIN users :
             (users[i].must_change_password /\ ~users'[i].must_change_password) =>
                \E s \in Procs :
                   /\ Completes(s, {"change_password"})
                   /\ sess'[s].result = OK /\ sess'[s].id = i
       /\ \A s \in Procs :
             /\ (Completes(s, {"reset_password"}) /\ sess'[s].result = OK) =>
                   users'[sess'[s].id].must_change_password
             /\ (Completes(s, {"change_password"}) /\ sess[s].pc = "handler") =>
                   LET id   == sess'[s].id
                       body == sess'[s].body
                   IN IF users[id].hashed_password =
                            get_password_hash(body.current_password)
                      THEN /\ sess'[s].result = OK
                           /\ ~users'[id].must_change_password
                           /\ users'[id].hashed_password =
                                 get_password_hash(body.new_password)
                      ELSE /\ sess'[s].result = BadRequest
                           /\ users' = users]_vars

\* a change_password with a wrong current password has failed for a user
\* whose flag an earlier change had cleared, while another user's password
\* has been reset and its flag is set
C29_Witness ==
    /\ sess["r1"].op = "change_password" /\ sess["r1"].pc = "done"
    /\ sess["r1"].result = BadRequest
    /\ ~users[sess["r1"].id].must_change_password
    /\ \E j \in DOMAIN users :
          /\ j # sess["r1"].id
          /\ users[j].must_change_password
          /\ users[j].hashed_password = get_password_hash("New@1234")

====
